---- MODULE Spec2Model ----
(***************************************************************************)
(* Model of the MVP submission server (src/server.js): the rate limiter in *)
(* front of POST /submit-mvp, the handler's configuration check, field     *)
(* validation, concurrent dispatch of the two e-mails through the          *)
(* transport, and the mapping of outcomes to HTTP responses.               *)
(*                                                                         *)
(* JavaScript strings are sequences of one-character strings, so trim(),   *)
(* includes() and the e-mail regular expression are computed, not assumed. *)
(***************************************************************************)
EXTENDS Integers, Sequences, FiniteSets, TLC

\* ------------------------------------------------------------------ bounds
\* Cap on the limiter's per-client hit counter inside one window.
MaxHits == 6
\* Cap on the number of requests suspended on their sends at one time.
MaxPending == 1

\* ------------------------------------------------------- program constants
\* rateLimit({ max: 5 })
RateLimitMax == 5

\* Client addresses (req.ip), the limiter's keys.
Clients == {"10.0.0.1", "10.0.0.2"}
Slots == 1..MaxPending

\* ---------------------------------------------------------------- strings
Whitespace == {" ", "\t"}

S_empty == <<>>
S_blank == <<" ", " ">>
S_name == <<"T">>
S_namePadded == <<" ", "T", " ">>
S_title == <<"P">>
S_text == <<"x">>
S_emailA == <<"a", "@", "b", ".", "c">>
S_emailB == <<"d", "@", "b", ".", "c">>
S_emailNoTld == <<"a", "@", "b">>
S_emailNoAt == <<"n", "o">>
S_emailDotFirst == <<"a", "@", ".", "c">>
S_youtubeCom == <<"y", "o", "u", "t", "u", "b", "e", ".", "c", "o", "m">>
S_youtuBe == <<"y", "o", "u", "t", "u", ".", "b", "e">>
S_githubCom == <<"g", "i", "t", "h", "u", "b", ".", "c", "o", "m">>
S_ytLong == <<"w", ".">> \o S_youtubeCom \o <<"/", "v">>
S_ytShort == S_youtuBe \o <<"/", "v">>
S_ghRepo == S_githubCom \o <<"/", "r">>
S_otherUrl == <<"v", "i", "m", "e", "o", ".", "c", "o", "m">>

\* ----------------------------------------------------------- JSON values
\* A scalar JSON value as found in req.body: t is the JavaScript type.
Undefined == [t |-> "undefined", s |-> <<>>]
Str(s) == [t |-> "string", s |-> s]
\* A non-zero number: truthy and without a trim method.
Num == [t |-> "number", s |-> <<>>]

\* A list-valued field: an array of scalar values, or something else.
NoList == [t |-> "undefined", e |-> <<>>]
Arr(e) == [t |-> "array", e |-> e]
\* A non-empty string where an array is expected (truthy, not an array).
NotArr == [t |-> "string", e |-> <<>>]

\* JavaScript truthiness of a scalar: undefined and "" are falsy.
Truthy(v) == (v.t = "number") \/ (v.t = "string" /\ v.s # <<>>)
\* Truthiness of a list-valued field: an array (even empty) is truthy.
TruthyList(v) == v.t # "undefined"
IsArray(v) == v.t = "array"

\* String.prototype.trim
RECURSIVE TrimLeft(_)
TrimLeft(s) ==
  IF s # <<>> /\ Head(s) \in Whitespace THEN TrimLeft(Tail(s)) ELSE s

RECURSIVE TrimRight(_)
TrimRight(s) ==
  IF s # <<>> /\ s[Len(s)] \in Whitespace
  THEN TrimRight(SubSeq(s, 1, Len(s) - 1))
  ELSE s

Trim(s) == TrimRight(TrimLeft(s))

\* String.prototype.includes
Includes(s, p) ==
  \E i \in 1..(Len(s) - Len(p) + 1) : SubSeq(s, i, i + Len(p) - 1) = p

\* [^\s@]
NotSpaceAt(ch) == ch \notin Whitespace /\ ch # "@"

\* /^[^\s@]+@[^\s@]+\.[^\s@]+$/.test(s)
EmailRegexTest(s) ==
  \E i \in 2..Len(s) : \E j \in (i + 2)..(Len(s) - 1) :
    /\ s[i] = "@"
    /\ s[j] = "."
    /\ \A k \in 1..(i - 1) : NotSpaceAt(s[k])
    /\ \A k \in (i + 1)..(j - 1) : NotSpaceAt(s[k])
    /\ \A k \in (j + 1)..Len(s) : NotSpaceAt(s[k])

\* ------------------------------------------------------------- validation
\* Object.entries(requiredFields): field and display name, in source order.
requiredFields == <<
  [field |-> "teamName", displayName |-> "Team Name"],
  [field |-> "teamEmail", displayName |-> "Team Email Address"],
  [field |-> "projectTitle", displayName |-> "Project Title"],
  [field |-> "projectBackground", displayName |-> "Project Background"],
  [field |-> "problemStatement", displayName |-> "Problem Statement"],
  [field |-> "youtubeLink", displayName |-> "YouTube Link"],
  [field |-> "githubRepo", displayName |-> "GitHub Repository"] >>

E_email == "Team Email Address (must be a valid email format)"
E_sdg == "UN Sustainable Development Goals (select at least one)"
E_members == "Team Members (at least one member required)"
E_youtube == "YouTube Link (must be a valid YouTube URL)"
E_github == "GitHub Repository (must be a valid GitHub URL)"

\* !req.body[field] || req.body[field].trim() === ''
\* (only evaluated on values for which trim exists or the value is falsy)
IsMissing(v) == ~Truthy(v) \/ Trim(v.s) = <<>>

\* A truthy value without a trim method: calling .trim() throws TypeError.
TrimThrows(v) == Truthy(v) /\ v.t # "string"

\* The loop over requiredFields: display names of the missing fields.
RECURSIVE RequiredErrorsFrom(_, _)
RequiredErrorsFrom(body, i) ==
  IF i > Len(requiredFields) THEN <<>>
  ELSE (IF IsMissing(body[requiredFields[i].field])
        THEN <<requiredFields[i].displayName>>
        ELSE <<>>) \o RequiredErrorsFrom(body, i + 1)

RequiredErrors(body) == RequiredErrorsFrom(body, 1)

\* if (teamEmail) { if (!emailRegex.test(teamEmail.trim())) push }
EmailErrors(body) ==
  IF Truthy(body.teamEmail) /\ ~EmailRegexTest(Trim(body.teamEmail.s))
  THEN <<E_email>> ELSE <<>>

\* !unsdgGoals || !Array.isArray(unsdgGoals) || unsdgGoals.length === 0
SdgErrors(body) ==
  IF \/ ~TruthyList(body.unsdgGoals)
     \/ ~IsArray(body.unsdgGoals)
     \/ Len(body.unsdgGoals.e) = 0
  THEN <<E_sdg>> ELSE <<>>

\* teamMembers.filter(m => m.trim()): the entries that are non-blank.
NonBlankMembers(members) ==
  SelectSeq(members, LAMBDA m : Trim(m.s) # <<>>)

\* m.trim() throws on an entry that is not a string.
MembersThrow(body) ==
  /\ TruthyList(body.teamMembers)
  /\ IsArray(body.teamMembers)
  /\ \E k \in 1..Len(body.teamMembers.e) : body.teamMembers.e[k].t # "string"

MemberErrors(body) ==
  IF \/ ~TruthyList(body.teamMembers)
     \/ ~IsArray(body.teamMembers)
     \/ Len(NonBlankMembers(body.teamMembers.e)) = 0
  THEN <<E_members>> ELSE <<>>

\* if (youtubeLink && !includes('youtube.com') && !includes('youtu.be'))
YoutubeErrors(body) ==
  IF /\ Truthy(body.youtubeLink)
     /\ ~Includes(body.youtubeLink.s, S_youtubeCom)
     /\ ~Includes(body.youtubeLink.s, S_youtuBe)
  THEN <<E_youtube>> ELSE <<>>

\* if (githubRepo && !githubRepo.includes('github.com'))
GithubErrors(body) ==
  IF Truthy(body.githubRepo) /\ ~Includes(body.githubRepo.s, S_githubCom)
  THEN <<E_github>> ELSE <<>>

\* Does the validation block throw a TypeError before reaching line 127?
ValidationThrows(body) ==
  \/ \E i \in 1..Len(requiredFields) : TrimThrows(body[requiredFields[i].field])
  \/ MembersThrow(body)

\* The errors array at line 127 (meaningful when nothing threw).
ValidationErrors(body) ==
  RequiredErrors(body) \o EmailErrors(body) \o SdgErrors(body)
    \o MemberErrors(body) \o YoutubeErrors(body) \o GithubErrors(body)

\* ---------------------------------------------------------------- bodies
Body(tn, te, pt, pb, ps, sdg, tm, yt, gh) ==
  [teamName |-> tn, teamEmail |-> te, projectTitle |-> pt,
   projectBackground |-> pb, problemStatement |-> ps,
   unsdgGoals |-> sdg, teamMembers |-> tm,
   youtubeLink |-> yt, githubRepo |-> gh]

\* req.body of a POST without any field: {}
EmptyBody ==
  Body(Undefined, Undefined, Undefined, Undefined, Undefined,
       NoList, NoList, Undefined, Undefined)

OneGoal == Arr(<<Str(S_text)>>)
TwoMembers == Arr(<<Str(S_name), Str(S_empty)>>)

ValidBody ==
  Body(Str(S_name), Str(S_emailA), Str(S_title), Str(S_text), Str(S_text),
       OneGoal, TwoMembers, Str(S_ytShort), Str(S_ghRepo))

\* The bodies the clients of the server specification submit.
ServerBodies ==
  { ValidBody,
    [ValidBody EXCEPT !.teamEmail = Str(S_emailB)],
    EmptyBody,
    [ValidBody EXCEPT !.teamName = Num] }

\* The bodies of the payload specification: every combination of these.
TextValues == {Undefined, Str(S_blank), Str(S_name)}
EmailValues ==
  {Undefined, Str(S_blank), Str(S_emailA), Str(S_emailNoTld), Str(S_emailNoAt),
   Str(S_emailDotFirst)}
GoalValues == {NoList, NotArr, Arr(<<>>), OneGoal}
MemberValues == {NoList, Arr(<<Str(S_blank)>>), TwoMembers, Arr(<<Num>>)}
YoutubeValues ==
  {Undefined, Str(S_blank), Str(S_ytShort), Str(S_ytLong), Str(S_otherUrl)}
GithubValues == {Undefined, Str(S_blank), Str(S_ghRepo), Str(S_otherUrl)}

PayloadBodies ==
  { Body(tn, te, Str(S_title), Str(S_text), ps, sdg, tm, yt, gh) :
      tn \in TextValues \cup {Num, Str(S_namePadded)}, te \in EmailValues,
      ps \in TextValues, sdg \in GoalValues, tm \in MemberValues,
      yt \in YoutubeValues, gh \in GithubValues }
    \cup {EmptyBody}

\* ------------------------------------------------------- transport errors
S_Unauthorized == <<"U", "n", "a", "u", "t", "h", "o", "r", "i", "z", "e", "d">>
S_failed == <<"f", "a", "i", "l", "e", "d">>

S_invalidLogin == <<"I", "n", "v", "a", "l", "i", "d", " ", "l", "o", "g", "i", "n">>

\* An Error object: its message and code, and what the failure was: auth
\* (the credential was rejected or lacks a permission) and net (name
\* resolution or the network failed).
Err(message, code, auth, net) ==
  [message |-> message, code |-> code, auth |-> auth, net |-> net]
NoError == Err(<<>>, "none", FALSE, FALSE)
\* The TypeError thrown by .trim() on a value that has no such method.
TypeError == Err(<<"n", "o", "t", " ", "a", " ", "f", "n">>, "none", FALSE, FALSE)

\* The rejections the transport's sendMail promise can produce.
SendErrors ==
  { Err(S_Unauthorized, "none", TRUE, FALSE),
    Err(S_invalidLogin, "EAUTH", TRUE, FALSE),
    Err(S_failed, "ENOTFOUND", FALSE, TRUE),
    Err(S_failed, "ECONNREFUSED", FALSE, TRUE),
    Err(S_Unauthorized, "ENOTFOUND", TRUE, TRUE),
    Err(S_failed, "EMESSAGE", FALSE, FALSE) }

\* -------------------------------------------------------------- responses
M_tooMany == "Too many submissions, please try again later."
M_notConfigured == "Email service not configured. Please contact administrator."
M_validation == "Validation failed"
M_received == "MVP submission received successfully!"
M_generic == "An error occurred while processing your submission."
M_authConfig == "Email service configuration error. Please contact administrator."
M_network == "Network connectivity issue. Please try again."

\* An HTTP response: status and JSON body. success is "true", "false" or
\* "absent"; hasErrors tells whether the body carries an errors array.
Response(status, success, message, hasErrors, errors, tn, pt) ==
  [status |-> status, success |-> success, message |-> message,
   hasErrors |-> hasErrors, errors |-> errors,
   teamName |-> tn, projectTitle |-> pt]

NoResponse == Response(0, "absent", "", FALSE, <<>>, Undefined, Undefined)

\* The limiter's reply: { error: 'Too many submissions, ...' }
TooManyResponse ==
  Response(429, "absent", M_tooMany, FALSE, <<>>, Undefined, Undefined)

NotConfiguredResponse ==
  Response(500, "false", M_notConfigured, FALSE, <<>>, Undefined, Undefined)

ValidationFailedResponse(errors) ==
  Response(400, "false", M_validation, TRUE, errors, Undefined, Undefined)

SuccessResponse(tn, pt) ==
  Response(200, "true", M_received, FALSE, <<>>, tn, pt)

\* The catch block's choice of message.
ErrorMessage(error) ==
  IF error.message # <<>> /\ Includes(error.message, S_Unauthorized)
  THEN M_authConfig
  ELSE IF error.code = "ENOTFOUND" THEN M_network ELSE M_generic

ErrorResponse(error) ==
  Response(500, "false", ErrorMessage(error), FALSE, <<>>, Undefined, Undefined)

\* ------------------------------------------------------------------ mails
S_admin ==
  <<"c", "o", "s", "a", "k", "u", "1", "0", "@", "g", "m", "a", "i", "l", ".", "c", "o", "m">>
AdminAddress == Str(S_admin)
FromAddress == "noreply@kbacomuniversity.ac.ug"

Mail(kind, to, replyTo, cc) ==
  [kind |-> kind, from |-> FromAddress, to |-> to, replyTo |-> replyTo, cc |-> cc]

\* The two sendMail calls, in the order they are issued.
AdminMail(body) == Mail("admin", AdminAddress, body.teamEmail, Undefined)
ParticipantMail(body) == Mail("participant", body.teamEmail, Undefined, AdminAddress)

\* Mutant: only the admin notice is sent.
EmailCalls_AdminOnly(body) == <<AdminMail(body)>>

\* emailPromises: the sendMail calls the handler issues before it awaits.
EmailCalls(body) == <<AdminMail(body), ParticipantMail(body)>>

\* ---------------------------------------------------------------- limiter
\* Mutant: the comparison is off by one.
Limited_OffByOne(count) == count > RateLimitMax + 1

\* express-rate-limit: the request is refused once the client's count in
\* the current window, this request included, exceeds max.
Limited(count) == count > RateLimitMax

\* ---------------------------------------------------------------- handler
\* Mutant: validation runs before the configuration check.
HandlerSync_ValidateFirst(tr, body) ==
  IF ValidationThrows(body)
  THEN [resp |-> ErrorResponse(TypeError), calls |-> <<>>]
  ELSE IF Len(ValidationErrors(body)) > 0
  THEN [resp |-> ValidationFailedResponse(ValidationErrors(body)), calls |-> <<>>]
  ELSE IF tr = "undefined"
  THEN [resp |-> NotConfiguredResponse, calls |-> <<>>]
  ELSE [resp |-> NoResponse, calls |-> EmailCalls(body)]

\* Mutant: the 400 response is sent without returning from the handler.
HandlerSync_NoReturn(tr, body) ==
  IF tr = "undefined"
  THEN [resp |-> NotConfiguredResponse, calls |-> <<>>]
  ELSE IF ValidationThrows(body)
  THEN [resp |-> ErrorResponse(TypeError), calls |-> <<>>]
  ELSE IF Len(ValidationErrors(body)) > 0
  THEN [resp |-> ValidationFailedResponse(ValidationErrors(body)),
        calls |-> EmailCalls(body)]
  ELSE [resp |-> NoResponse, calls |-> EmailCalls(body)]

\* The handler from its entry to its first response or to the await:
\* resp is the response sent (NoResponse when the handler suspends) and
\* calls are the sendMail calls issued.
HandlerSync(tr, body) ==
  IF tr = "undefined"
  THEN [resp |-> NotConfiguredResponse, calls |-> <<>>]
  ELSE IF ValidationThrows(body)
  THEN [resp |-> ErrorResponse(TypeError), calls |-> <<>>]
  ELSE IF Len(ValidationErrors(body)) > 0
  THEN [resp |-> ValidationFailedResponse(ValidationErrors(body)), calls |-> <<>>]
  ELSE [resp |-> NoResponse, calls |-> EmailCalls(body)]

\* HandlerSync tabulated once over the bodies of the server specification.
ServerOutcomes ==
  [tr \in {"undefined", "configured"} |->
    [body \in ServerBodies |-> HandlerSync(tr, body)]]

\* HandlerSync, read from the table for the bodies it covers.
Handle(tr, body) ==
  IF body \in ServerBodies THEN ServerOutcomes[tr][body] ELSE HandlerSync(tr, body)

\* Mutant: Promise.any, fulfilled as soon as one send is accepted.
PromiseAll_Any(admin, participant) ==
  IF "accepted" \in {admin, participant} THEN "fulfilled"
  ELSE IF admin = "rejected" /\ participant = "rejected" THEN "rejected"
  ELSE "pending"

\* Mutant: Promise.race, settled by the first send that settles.
PromiseAll_Race(admin, participant) ==
  IF admin = "inflight" /\ participant = "inflight" THEN "pending"
  ELSE IF "rejected" \in {admin, participant} THEN "rejected"
  ELSE "fulfilled"

\* Promise.all over the two sends: rejected as soon as one is rejected,
\* fulfilled once both are accepted, pending otherwise.
PromiseAll(admin, participant) ==
  IF "rejected" \in {admin, participant} THEN "rejected"
  ELSE IF admin = "accepted" /\ participant = "accepted" THEN "fulfilled"
  ELSE "pending"

\* The handler's continuation after the await: res.json on fulfilment, the
\* catch block on rejection with the error of the rejected send.
Continuation(join, req, error) ==
  IF join = "fulfilled"
  THEN SuccessResponse(req.teamName, req.projectTitle)
  ELSE ErrorResponse(error)

\* ------------------------------------------------------------------ state
VARIABLES
  server,       \* "listening", or "crashed" when loading the module threw
  transporter,  \* "configured" or "undefined"
  hits,         \* the limiter's count per client in the current window
  admitted,     \* per client, requests of the current window handed to the handler
  pending,      \* per slot, a request whose sends have not all settled
  last          \* the most recent step: the request or send it was about,
                \* the response it sent and the sendMail calls it issued

vars == <<server, transporter, hits, admitted, pending, last>>

SendKinds == {"admin", "participant"}

\* A request between its dispatch and the settling of its last send.
\* nresp counts the responses sent for it, status is the last one's status.
Pending(open, tn, pt, admin, participant, nresp, status) ==
  [open |-> open, teamName |-> tn, projectTitle |-> pt,
   admin |-> admin, participant |-> participant,
   nresp |-> nresp, status |-> status]

Idle == Pending(FALSE, Undefined, Undefined, "none", "none", 0, 0)

\* The status of the send of one kind right after the calls were issued.
Issued(calls, kind) ==
  IF \E i \in 1..Len(calls) : calls[i].kind = kind THEN "inflight" ELSE "none"

\* count is the limiter's count for the client, this request included; err
\* is the error the handler's catch block received, if it ran.
Event(kind, client, count, body, slot, which, err, resp, calls, req) ==
  [kind |-> kind, client |-> client, count |-> count, body |-> body,
   slot |-> slot, which |-> which, err |-> err, resp |-> resp,
   calls |-> calls, admin |-> req.admin, participant |-> req.participant,
   nresp |-> req.nresp, status |-> req.status]

NoEvent == Event("none", "", 0, EmptyBody, 0, "", NoError, NoResponse, <<>>, Idle)

\* The lowest free slot, 0 when there is none.
FreeSlot ==
  IF \E s \in Slots : ~pending[s].open
  THEN CHOOSE s \in Slots : ~pending[s].open /\ \A t \in Slots : t < s => pending[t].open
  ELSE 0

\* Loading the module: without SENDGRID_API_KEY the transporter stays
\* undefined; with it, nodemailer.createTransporter(...) either returns a
\* transport or throws (the library exports no function of that name), and
\* a throw at load time ends the process before it listens.
Init ==
  /\ \/ server = "listening" /\ transporter = "undefined"
     \/ server = "listening" /\ transporter = "configured"
     \/ server = "crashed" /\ transporter = "undefined"
  /\ hits = [c \in Clients |-> 0]
  /\ admitted = [c \in Clients |-> 0]
  /\ pending = [s \in Slots |-> Idle]
  /\ last = NoEvent

\* The request record and the event of a handler run with outcome h.
Dispatched(body, h) ==
  Pending(TRUE, body.teamName, body.projectTitle,
          Issued(h.calls, "admin"), Issued(h.calls, "participant"),
          IF h.resp = NoResponse THEN 0 ELSE 1, h.resp.status)

\* POST /submit-mvp from client c with body: the limiter, then the handler
\* up to its response or its await.
Post(c, body) ==
  /\ server = "listening"
  /\ hits[c] < MaxHits
  /\ hits' = [hits EXCEPT ![c] = @ + 1]
  /\ IF Limited(hits[c] + 1)
     THEN /\ last' = Event("post", c, hits[c] + 1, body, 0, "", NoError,
                          TooManyResponse, <<>>,
                          [Idle EXCEPT !.nresp = 1, !.status = 429])
          /\ UNCHANGED <<admitted, pending>>
     ELSE \E h \in {Handle(transporter, body)} :
          \E req \in {Dispatched(body, h)} :
            /\ admitted' = [admitted EXCEPT ![c] = @ + 1]
            /\ IF "inflight" \in {req.admin, req.participant}
               THEN \E s \in {FreeSlot} :
                      /\ s # 0
                      /\ pending' = [pending EXCEPT ![s] = req]
                      /\ last' = Event("post", c, hits[c] + 1, body, s, "", NoError,
                                       h.resp, h.calls, req)
               ELSE /\ pending' = pending
                    /\ last' = Event("post", c, hits[c] + 1, body, 0, "", NoError,
                                     h.resp, h.calls, [req EXCEPT !.open = FALSE])
  /\ UNCHANGED <<server, transporter>>

\* The request req after one of its sends settled with outcome: resumes
\* tells whether this settles its Promise.all, so that the handler
\* continues and sends resp.
AfterSettle(req, kind, outcome, error) ==
  LET settled == [req EXCEPT ![kind] = outcome]
      before == PromiseAll(req.admin, req.participant)
      after == PromiseAll(settled.admin, settled.participant)
      resumes == before = "pending" /\ after # "pending"
      resp == IF resumes THEN Continuation(after, req, error) ELSE NoResponse
  IN [req |-> [settled EXCEPT !.nresp = IF resumes THEN @ + 1 ELSE @,
                              !.status = IF resumes THEN resp.status ELSE @],
      resp |-> resp,
      caught |-> IF resumes /\ after = "rejected" THEN error ELSE NoError]

\* The transport settles one send of the request in slot s: accepted
\* (error = NoError) or rejected with error. The handler resumes in the same
\* turn when this settles its Promise.all.
Settle(s, kind, outcome, error) ==
  /\ pending[s].open
  /\ pending[s][kind] = "inflight"
  /\ UNCHANGED <<server, transporter, hits, admitted>>
  /\ \E r \in {AfterSettle(pending[s], kind, outcome, error)} :
       /\ pending' = [pending EXCEPT ![s] =
                        IF "inflight" \in {r.req.admin, r.req.participant}
                        THEN r.req ELSE Idle]
       /\ last' = Event("settle", "", 0, EmptyBody, s, kind, r.caught, r.resp,
                        <<>>, r.req)

Accept(s, kind) == Settle(s, kind, "accepted", NoError)

Reject(s, kind) == \E e \in SendErrors : Settle(s, kind, "rejected", e)

\* The limiter's window of client c ends: its count starts again from 0.
WindowExpires(c) ==
  /\ server = "listening"
  /\ hits[c] > 0
  /\ hits' = [hits EXCEPT ![c] = 0]
  /\ admitted' = [admitted EXCEPT ![c] = 0]
  /\ UNCHANGED <<server, transporter, pending, last>>

Next ==
  \/ \E c \in Clients, body \in ServerBodies : Post(c, body)
  \/ \E s \in Slots, kind \in SendKinds : Accept(s, kind)
  \/ \E s \in Slots, kind \in SendKinds : Reject(s, kind)
  \/ \E c \in Clients : WindowExpires(c)

Spec == Init /\ [][Next]_vars

\* Every send that was issued eventually settles: a request with a send in
\* flight eventually sees one of its sends leave that state. Weak fairness
\* of acceptance states exactly this, since a rejected send is no longer in
\* flight either.
Fairness ==
  \A s \in Slots :
    WF_vars(\E kind \in SendKinds : Accept(s, kind))

FairSpec == Spec /\ Fairness

\* One request with a body drawn from PayloadBodies.
PayloadNext ==
  /\ last.kind = "none"
  /\ \E c \in Clients, body \in PayloadBodies : Post(c, body)

PayloadSpec == Init /\ [][PayloadNext]_vars

\* ================================================================ claims
Min(a, b) == IF a < b THEN a ELSE b
Range(seq) == {seq[i] : i \in 1..Len(seq)}

\* The requests in view: those suspended on their sends and the one the
\* most recent step was about.
View(r) ==
  [admin |-> r.admin, participant |-> r.participant,
   nresp |-> r.nresp, status |-> r.status]

Seen ==
  {View(pending[s]) : s \in {t \in Slots : pending[t].open}}
    \cup (IF last.kind = "none" THEN {} ELSE {View(last)})

Sends(r) == {r.admin, r.participant}

\* The most recent step was a POST that the limiter handed to the handler.
Handled == last.kind = "post" /\ last.count <= RateLimitMax

\* ---------------------------------------------------------------- C1
\* C1 as stated: with the transport never configured, every POST to
\* /submit-mvp, however many the client already made, is answered 500 with
\* success:false, without an errors list and without a send.
C1_Original ==
  (transporter = "undefined" /\ last.kind = "post") =>
    /\ last.resp.status = 500
    /\ last.resp.success = "false"
    /\ ~last.resp.hasErrors
    /\ last.calls = <<>>

\* C1 amended: with the transport never configured, every POST that the
\* rate limiter admits is answered with the 500 "not configured" response
\* whatever its payload, every POST beyond the limit gets the limiter's 429,
\* and no 400, no errors list and no send is ever produced.
C1_Amended ==
  transporter = "undefined" =>
    /\ \A s \in Slots : ~pending[s].open
    /\ last.kind # "settle"
    /\ last.kind = "post" =>
         /\ last.calls = <<>>
         /\ last.resp.status # 400
         /\ ~last.resp.hasErrors
         /\ last.count <= RateLimitMax => last.resp = NotConfiguredResponse
         /\ last.count > RateLimitMax => last.resp = TooManyResponse

\* The fifth POST of a window, with an empty body, answered 500.
C1_Witness ==
  /\ transporter = "undefined"
  /\ last.kind = "post"
  /\ last.body = EmptyBody
  /\ last.count = RateLimitMax
  /\ last.resp = NotConfiguredResponse

\* ---------------------------------------------------------------- C2
\* Absent, or blank after trimming.
Blank(v) == v.t = "undefined" \/ (v.t = "string" /\ Trim(v.s) = <<>>)

HasHost(v, hosts) == v.t = "string" /\ \E h \in hosts : Includes(v.s, h)

\* A value of a required field that satisfies every rule on that field.
FieldValid(field, v) ==
  /\ v.t = "string"
  /\ ~Blank(v)
  /\ field = "teamEmail" => EmailRegexTest(Trim(v.s))
  /\ field = "youtubeLink" => HasHost(v, {S_youtubeCom, S_youtuBe})
  /\ field = "githubRepo" => HasHost(v, {S_githubCom})

GoalsValid(v) == v.t = "array" /\ Len(v.e) > 0

MembersValid(v) ==
  /\ v.t = "array"
  /\ \A i \in 1..Len(v.e) : v.e[i].t = "string"
  /\ \E i \in 1..Len(v.e) : ~Blank(v.e[i])

\* Display names of the blank required fields, in the table's order.
RECURSIVE MissingNamesFrom(_, _)
MissingNamesFrom(body, i) ==
  IF i > Len(requiredFields) THEN <<>>
  ELSE (IF Blank(body[requiredFields[i].field])
        THEN <<requiredFields[i].displayName>>
        ELSE <<>>) \o MissingNamesFrom(body, i + 1)

MissingNames(body) == MissingNamesFrom(body, 1)

\* Some required field is blank and everything else is valid.
OnlyMissing(body) ==
  /\ \E i \in 1..Len(requiredFields) : Blank(body[requiredFields[i].field])
  /\ \A i \in 1..Len(requiredFields) :
       \/ Blank(body[requiredFields[i].field])
       \/ FieldValid(requiredFields[i].field, body[requiredFields[i].field])
  /\ GoalsValid(body.unsdgGoals)
  /\ MembersValid(body.teamMembers)

\* C2 as stated: when required fields are absent or blank and everything
\* else is valid, the error list is exactly the display names of the missing
\* fields, in table order.
C2_Claim ==
  (Handled /\ transporter = "configured" /\ OnlyMissing(last.body)) =>
    /\ last.resp.hasErrors
    /\ last.resp.errors = MissingNames(last.body)

\* ---------------------------------------------------------------- C3
\* The entries of the failing rules 1 to 6, in rule order, as the rules are
\* worded: 2 applies to a present teamEmail, 5 and 6 to a present and
\* non-blank link.
RuleErrors(body) ==
  MissingNames(body)
    \o (IF body.teamEmail.t # "undefined" /\ body.teamEmail # Str(<<>>)
           /\ ~(body.teamEmail.t = "string" /\ EmailRegexTest(Trim(body.teamEmail.s)))
        THEN <<E_email>> ELSE <<>>)
    \o (IF ~GoalsValid(body.unsdgGoals) THEN <<E_sdg>> ELSE <<>>)
    \o (IF \/ body.teamMembers.t # "array"
           \/ \A i \in 1..Len(body.teamMembers.e) : Blank(body.teamMembers.e[i])
        THEN <<E_members>> ELSE <<>>)
    \o (IF ~Blank(body.youtubeLink)
           /\ ~HasHost(body.youtubeLink, {S_youtubeCom, S_youtuBe})
        THEN <<E_youtube>> ELSE <<>>)
    \o (IF ~Blank(body.githubRepo) /\ ~HasHost(body.githubRepo, {S_githubCom})
        THEN <<E_github>> ELSE <<>>)

\* C3 as stated: with the transport configured and the client under its
\* limit, a payload failing at least one rule is answered 400 "Validation
\* failed" with the entries of all failing rules in rule order, never 500.
C3_Claim ==
  (Handled /\ transporter = "configured" /\ Len(RuleErrors(last.body)) > 0) =>
    last.resp = ValidationFailedResponse(RuleErrors(last.body))

\* ---------------------------------------------------------------- C4
\* C4 as stated: the URL-format entry of youtubeLink (githubRepo) is
\* produced exactly when the field is present, non-blank and without a
\* recognized host; an absent or blank value never produces it.
C4_Claim ==
  (Handled /\ transporter = "configured" /\ last.resp.status # 500) =>
    /\ E_youtube \in Range(last.resp.errors)
         <=> (~Blank(last.body.youtubeLink)
              /\ ~HasHost(last.body.youtubeLink, {S_youtubeCom, S_youtuBe}))
    /\ E_github \in Range(last.resp.errors)
         <=> (~Blank(last.body.githubRepo)
              /\ ~HasHost(last.body.githubRepo, {S_githubCom}))

\* ---------------------------------------------------------------- C5
\* C5: a 200 response is sent only for a request whose two sends were both
\* accepted; a request with a rejected send has been answered 500, once.
C5_SuccessOnlyIfBothAccepted ==
  /\ last.resp.status = 200 =>
       /\ last.kind = "settle"
       /\ last.resp.success = "true"
       /\ last.admin = "accepted" /\ last.participant = "accepted"
  /\ \A r \in Seen :
       /\ r.status = 200 => Sends(r) = {"accepted"}
       /\ "rejected" \in Sends(r) => r.status = 500 /\ r.nresp = 1

\* A request answered 200 after both sends were accepted.
C5_Witness ==
  /\ last.kind = "settle"
  /\ last.resp = SuccessResponse(ValidBody.teamName, ValidBody.projectTitle)
  /\ last.admin = "accepted" /\ last.participant = "accepted"

\* ---------------------------------------------------------------- C6
\* C6 as stated: no response of a request is sent while one of its two
\* sends is still in flight.
C6_Original ==
  \A r \in Seen : r.nresp > 0 => "inflight" \notin Sends(r)

\* C6 amended: both sends are issued together and the handler suspends
\* until both are accepted or one is rejected: no response is sent before a
\* send is rejected or both are accepted, a 200 is never sent while a send
\* is in flight, and the 500 of a rejection may be sent while the other
\* send is still in flight.
C6_Amended ==
  /\ (last.kind = "post" /\ last.calls # <<>>) =>
       /\ last.admin = "inflight" /\ last.participant = "inflight"
       /\ last.nresp = 0
  /\ \A r \in Seen :
       /\ (r.nresp > 0 /\ "inflight" \in Sends(r)) =>
            r.status = 500 /\ "rejected" \in Sends(r)
       /\ (r.nresp = 0 /\ Sends(r) # {"none"}) =>
            "rejected" \notin Sends(r) /\ "inflight" \in Sends(r)

\* The 500 of a rejected send, sent while the other send is in flight.
C6_Witness ==
  /\ last.kind = "settle"
  /\ last.resp.status = 500
  /\ Sends(last) = {"rejected", "inflight"}

\* ---------------------------------------------------------------- C7
\* C7: per client and window at most 5 POSTs reach the handler, whatever
\* their outcome; from the 6th on the limiter answers 429 with its message
\* and the handler does not run; a client's allowance depends on its own
\* POSTs only.
C7_RateLimit ==
  /\ \A c \in Clients :
       /\ admitted[c] <= RateLimitMax
       /\ admitted[c] = Min(hits[c], RateLimitMax)
  /\ last.kind = "post" =>
       /\ last.count > RateLimitMax <=> last.resp = TooManyResponse
       /\ last.count > RateLimitMax =>
            /\ last.calls = <<>>
            /\ last.slot = 0
            /\ Sends(last) = {"none"}

\* One client is refused on its 6th POST while the other, with POSTs of
\* its own in the window, keeps its allowance.
C7_Witness ==
  \E c \in Clients, d \in Clients :
    /\ c # d
    /\ last.kind = "post" /\ last.client = c
    /\ last.count = RateLimitMax + 1
    /\ last.resp = TooManyResponse
    /\ hits[d] > 0 /\ admitted[d] = hits[d]

\* ---------------------------------------------------------------- C8
\* C8 as stated: a rejected send is answered 500 with the authorization
\* message for every authorization failure, the connectivity message for
\* every other name-resolution or network failure, and the generic message
\* for the rest.
C8_Claim ==
  (last.kind = "settle" /\ last.err # NoError) =>
    /\ last.resp.status = 500
    /\ last.resp.success = "false"
    /\ last.resp.message =
         IF last.err.auth THEN M_authConfig
         ELSE IF last.err.net THEN M_network ELSE M_generic

\* ---------------------------------------------------------------- C9
\* Neither rule 1 to 6 fails nor a TypeError is thrown.
Passes(body) == ~ValidationThrows(body) /\ Len(ValidationErrors(body)) = 0

C9_Calls ==
  /\ last.kind = "settle" => last.calls = <<>>
  /\ last.kind = "post" =>
       /\ Len(last.calls) \in {0, 2}
       /\ last.calls = <<>> <=> last.resp # NoResponse
       /\ (Handled /\ transporter = "configured" /\ Passes(last.body))
            => Len(last.calls) = 2
       /\ Len(last.calls) = 2 =>
            /\ last.calls[1].kind = "admin"
            /\ last.calls[1].to = AdminAddress
            /\ last.calls[2].kind = "participant"
            /\ last.calls[2].to = last.body.teamEmail
            /\ last.admin = "inflight" /\ last.participant = "inflight"

C9_NoRetry ==
  \A s \in Slots, kind \in SendKinds :
    (pending[s].open /\ pending[s][kind] \in {"accepted", "rejected"}) =>
      (~pending'[s].open \/ pending'[s][kind] = pending[s][kind])

\* C9: a request issues no send (limited, unconfigured, invalid) or exactly
\* two, the admin notice to the administrator and the confirmation to
\* teamEmail, both in flight together; a settled send is never issued again;
\* every admitted valid request issues its own two sends.
C9_ZeroOrTwoSends == []C9_Calls /\ [][C9_NoRetry]_vars

\* A client's second POST of a window issuing two sends of its own.
C9_Witness ==
  /\ last.kind = "post"
  /\ last.count = 2
  /\ last.body = [ValidBody EXCEPT !.teamEmail = Str(S_emailB)]
  /\ Len(last.calls) = 2
  /\ last.calls[2].to = Str(S_emailB)

\* --------------------------------------------------------------- C10
C10_Safety ==
  /\ \A r \in Seen : r.nresp <= 1
  /\ Handled =>
       /\ last.slot = 0 => last.nresp = 1 /\ last.resp.status \in {400, 500}
       /\ last.slot # 0 => last.nresp = 0 /\ last.resp = NoResponse
  /\ last.kind = "settle" =>
       /\ last.resp # NoResponse => last.resp.status \in {200, 500}
       /\ "inflight" \notin Sends(last) => last.nresp = 1

\* C10: every POST that reaches the handler gets exactly one response, a
\* 200, 400 or 500, and when its sends settle it is eventually answered.
C10_ExactlyOneResponse ==
  /\ []C10_Safety
  /\ \A s \in Slots :
       (pending[s].open /\ pending[s].nresp = 0)
         ~> (last.kind = "settle" /\ last.slot = s /\ last.resp # NoResponse)

\* The second send of a request settles after its 500 was sent: no second
\* response.
C10_Witness ==
  /\ last.kind = "settle"
  /\ last.resp = NoResponse
  /\ last.status = 500 /\ last.nresp = 1
  /\ "inflight" \notin Sends(last)

====
